---- MODULE Spec2Model ----
(***************************************************************************)
(* A model of the cldbar tray front end: the AddProfileForm component, the *)
(* data hooks of useProviderData with the TrayPopup effects that drive     *)
(* them, the window-state flags of lib/windowState, and the RateLimits     *)
(* component.                                                              *)
(*                                                                         *)
(* Conventions.  JavaScript null is the string "null" where the other      *)
(* values are strings, and an empty set or a record with isNull = TRUE     *)
(* where they are not.  Text typed by the user is a sequence of            *)
(* characters, so that String.prototype.trim is computed, not assumed.     *)
(* The variable op names the handler step taken last, and out holds the    *)
(* backend invocations that step issued.                                   *)
(***************************************************************************)
EXTENDS Integers, Sequences, FiniteSets, TLC

VARIABLES
  \* ---- shared ----
  view,             \* TrayPopup: "main" | "settings" | "addProfile"
  profiles,         \* useProfiles: the profile list held by the UI
  backendProfiles,  \* the profile list stored by the backend (config file)
  op,               \* the handler step taken last
  out,              \* the invoke(), setTimeout and window calls that step issued
  calls,            \* the refresh functions TrayPopup called in that step
  uncaught,         \* the handlers that let an exception escape
  \* ---- AddProfileForm ----
  providerType, sourceType, name, configDir, apiKey,
  validating, validated, submitting, error,
  valPending,       \* the validate_api_key invocation in flight, if any
  subPending,       \* the add_profile invocations in flight
  addedPending,     \* handleProfileAdded runs awaiting refreshProfiles()
  nextId,           \* stands for Date.now() in the profile id
  \* ---- TrayPopup and the data hooks ----
  activeProfileId,  \* TrayPopup: the selected profile, NoProfile for null
  stats,            \* useUsageStats
  loading,          \* useUsageStats
  sessions,         \* useActiveSessions
  data,             \* useDailyUsage
  pending,          \* the get_* invocations in flight
  seq,              \* how many refreshes have been triggered
  intervals,        \* the active setInterval timers of the auto-refresh effect
  profilesPending,  \* the get_profiles invocations of useProfiles in flight
  \* ---- lib/windowState and the blur/focus effect of TrayPopup ----
  dialogOpen,       \* _dialogOpen
  dragging,         \* _dragging
  dialogPending,    \* the native directory picker is showing
  pressed,          \* the mouse: "none", or how startManualDrag took the press
  presses,          \* how many presses startManualDrag has accepted
  posPending,       \* the outerPosition() promises in flight
  mouseUpListeners, \* the onMouseUp listeners registered on document
  dragTimers,       \* the pending 200 ms timers that call setDragging(false)
  blurTimeout,      \* the handle: "null", or a timer "pending" or "fired"
  leakedHides,      \* pending hide timers no handle refers to
  hidden,           \* win.hide() has run and the window is not shown again
  \* ---- RateLimits ----
  status,           \* the status prop
  rendered,         \* what RateLimits returned for it
  \* ---- the usage engine behind get_usage_stats and the other commands ----
  clock,            \* now, in ticks
  files,            \* the log file of each day: its records
  mtimes,           \* the modification time of each day's file
  cache,            \* Cache Store: the entry of each day
  result,           \* what the last refresh of the engine returned
  \* ---- the theme: App, SettingsPanel and their two useSettings ----
  appSettings,      \* useSettings of App: the theme it holds, "null" for null
  appGetPending,    \* get_settings of App in flight
  panelSettings,    \* useSettings of SettingsPanel, "null" when not loaded
  panelGetPending,  \* get_settings of the mounted SettingsPanel in flight
  updatePending,    \* the update_settings invocations in flight
  backendTheme,     \* the theme of the settings the backend has stored
  osDark,           \* the OS prefers the dark colour scheme
  datasetTheme,     \* document.documentElement.dataset.theme
  mqListener,       \* App's change listener is registered on the media query
  themeClicks,      \* how many theme buttons have been clicked
  lastSelected,     \* the theme of the last update that succeeded, or "none"
  \* ---- handleRemoveProfile of TrayPopup ----
  removes,          \* the calls of handleRemoveProfile in flight
  removeCount,      \* how many times handleRemoveProfile has been called
  \* ---- the dynamic height effect of TrayPopup ----
  sessionCount,     \* sessions.length of the last render
  scale             \* window.devicePixelRatio, in hundredths

formVars == <<providerType, sourceType, name, configDir, apiKey,
              validating, validated, submitting, error, valPending>>
appVars == <<view, profiles, backendProfiles, subPending, addedPending, nextId>>
hookVars == <<activeProfileId, stats, loading, sessions, data, pending, seq,
              intervals, profilesPending>>
winVars == <<dialogOpen, dragging, dialogPending, pressed, presses, posPending,
             mouseUpListeners, dragTimers, blurTimeout, leakedHides, hidden>>
rateVars == <<status, rendered>>
coreVars == <<clock, files, mtimes, cache, result>>

themeVars == <<appSettings, appGetPending, backendTheme, osDark, datasetTheme,
               mqListener, themeClicks, lastSelected>>

panelVars == <<panelSettings, panelGetPending, updatePending>>

removeVars == <<removes, removeCount>>

resizeVars == <<sessionCount, scale>>

\* the variables an action of another component leaves alone
otherVars == <<coreVars, themeVars, panelVars, removeVars, resizeVars>>

vars == <<appVars, op, out, calls, uncaught, formVars, hookVars, winVars, rateVars,
          otherVars>>

----------------------------------------------------------------------------
(* Bounds of the model *)

\* add_profile invocations issued in one behaviour
MaxSubmits == 1
\* refreshes triggered in one behaviour (ticks, clicks and profile changes)
MaxRefreshes == 2
\* presses startManualDrag accepts in one behaviour
MaxPresses == 2
\* pending hide timers no handle refers to
MaxLeakedHides == 1

\* the ticks of the clock the engine is followed for
MaxClock == 2

\* the records written to the log files
MaxRecords == 3

\* the clicks on theme buttons
MaxThemeClicks == 2

\* the clicks on remove buttons
MaxRemoves == 2

\* the sessions a response of get_active_sessions lists
MaxSessions == 4

----------------------------------------------------------------------------
(* Text *)

\* what the user types into the name, config directory and API key inputs:
\* nothing, blanks only, plain text, and text with blanks around it
NameTexts == {<<>>, <<"n">>}

DirTexts == {<<>>, <<" ">>, <<" ", "d">>}

KeyTexts == {<<>>, <<" ">>, <<"k">>, <<" ", "j", " ">>}

IsSpace(c) == c = " "

RECURSIVE TrimStart(_)
TrimStart(s) ==
  IF s # <<>> /\ IsSpace(Head(s)) THEN TrimStart(Tail(s)) ELSE s

RECURSIVE TrimEnd(_)
TrimEnd(s) ==
  IF s # <<>> /\ IsSpace(s[Len(s)]) THEN TrimEnd(SubSeq(s, 1, Len(s) - 1)) ELSE s

\* String.prototype.trim
Trim(s) == TrimEnd(TrimStart(s))

\* a string in a boolean context: "" is falsy
Truthy(s) == s # <<>>

\* what a handler step issued, in order; no refresh calls
Issues(invocations) == out' = invocations /\ calls' = <<>>

----------------------------------------------------------------------------
(* lib/types.ts and the provider list of AddProfileForm *)

apiSupportedProviders == {"claude"}

accountSupportedProviders == {"claude", "gemini"}

\* the provider buttons the form renders (z.ai is commented out)
providers == {"claude", "gemini"}

\* providers.find(p => p.type === providerType)?.label
ProviderLabel(type) == IF type = "claude" THEN "Claude" ELSE "Gemini"

----------------------------------------------------------------------------
(* AddProfileForm *)

isApi == sourceType = "api"

supportsApi == providerType \in apiSupportedProviders

canSubmit == IF isApi THEN Len(Trim(apiKey)) > 0 ELSE Len(Trim(configDir)) > 0

FormMounted == view = "addProfile"

\* the useState initial values: a freshly mounted form
FormInitial ==
  /\ providerType = "claude"
  /\ sourceType = "account"
  /\ name = <<>>
  /\ configDir = <<>>
  /\ apiKey = <<>>
  /\ validating = FALSE
  /\ validated = "null"
  /\ submitting = FALSE
  /\ error = "null"
  /\ valPending = {}

\* mounting gives the component fresh state
FormMount ==
  /\ providerType' = "claude"
  /\ sourceType' = "account"
  /\ name' = <<>>
  /\ configDir' = <<>>
  /\ apiKey' = <<>>
  /\ validating' = FALSE
  /\ validated' = "null"
  /\ submitting' = FALSE
  /\ error' = "null"
  /\ valPending' = {}

\* Unmounting discards the component state.  The state setters of an unmounted
\* component do nothing, so a validation still in flight is forgotten, and an
\* add_profile still in flight keeps only its call of onAdded.
Orphaned(reqs) == {[r EXCEPT !.live = FALSE] : r \in reqs}

\* handleProviderChange without the reset of a source the provider lacks
handleProviderChangeKeepingSource(type) ==
  /\ FormMounted
  /\ providerType' = type
  /\ validated' = "null"
  /\ error' = "null"
  /\ op' = "handleProviderChange"
  /\ Issues(<<>>)
  /\ UNCHANGED <<sourceType, name, configDir, apiKey, validating, submitting, valPending>>
  /\ UNCHANGED <<appVars, hookVars, uncaught, winVars, rateVars, otherVars>>

handleProviderChange(type) ==
  /\ FormMounted
  /\ providerType' = type
  /\ LET canApi == type \in apiSupportedProviders
         canAccount == type \in accountSupportedProviders
     IN  sourceType' = IF ~canApi /\ sourceType = "api" THEN "account"
                       ELSE IF ~canAccount /\ sourceType = "account" THEN "api"
                       ELSE sourceType
  /\ validated' = "null"
  /\ error' = "null"
  /\ op' = "handleProviderChange"
  /\ Issues(<<>>)
  /\ UNCHANGED <<name, configDir, apiKey, validating, submitting, valPending>>
  /\ UNCHANGED <<appVars, hookVars, uncaught, winVars, rateVars, otherVars>>

\* the Account button of the source toggle
SelectAccount ==
  /\ FormMounted
  /\ sourceType' = "account"
  /\ error' = "null"
  /\ op' = "selectAccount"
  /\ Issues(<<>>)
  /\ UNCHANGED <<providerType, name, configDir, apiKey, validating, validated,
                 submitting, valPending>>
  /\ UNCHANGED <<appVars, hookVars, uncaught, winVars, rateVars, otherVars>>

\* the API button of the source toggle
SelectApi ==
  /\ FormMounted
  /\ IF supportsApi
       THEN sourceType' = "api" /\ error' = "null"
       ELSE UNCHANGED <<sourceType, error>>
  /\ op' = "selectApi"
  /\ Issues(<<>>)
  /\ UNCHANGED <<providerType, name, configDir, apiKey, validating, validated,
                 submitting, valPending>>
  /\ UNCHANGED <<appVars, hookVars, uncaught, winVars, rateVars, otherVars>>

SetName(v) ==
  /\ FormMounted
  /\ name' = v
  /\ op' = "setName"
  /\ Issues(<<>>)
  /\ UNCHANGED <<providerType, sourceType, configDir, apiKey, validating, validated,
                 submitting, error, valPending>>
  /\ UNCHANGED <<appVars, hookVars, uncaught, winVars, rateVars, otherVars>>

\* the config directory input is rendered for the account source only
SetConfigDir(v) ==
  /\ FormMounted
  /\ ~isApi
  /\ configDir' = v
  /\ op' = "setConfigDir"
  /\ Issues(<<>>)
  /\ UNCHANGED <<providerType, sourceType, name, apiKey, validating, validated,
                 submitting, error, valPending>>
  /\ UNCHANGED <<appVars, hookVars, uncaught, winVars, rateVars, otherVars>>

\* the API key input is rendered for the API source only
SetApiKey(v) ==
  /\ FormMounted
  /\ isApi
  /\ apiKey' = v
  /\ validated' = "null"
  /\ op' = "setApiKey"
  /\ Issues(<<>>)
  /\ UNCHANGED <<providerType, sourceType, name, configDir, validating,
                 submitting, error, valPending>>
  /\ UNCHANGED <<appVars, hookVars, uncaught, winVars, rateVars, otherVars>>

ValidateCall == [cmd |-> "validate_api_key", apiKey |-> Trim(apiKey),
                 providerType |-> providerType]

\* handleValidate without its check of a blank key
handleValidateNoBlankCheck ==
  /\ FormMounted
  /\ isApi
  /\ ~validating
  /\ op' = "handleValidate"
  /\ validating' = TRUE
  /\ validated' = "null"
  /\ error' = "null"
  /\ Issues(<<ValidateCall>>)
  /\ valPending' = {ValidateCall}
  /\ UNCHANGED <<providerType, sourceType, name, configDir, apiKey, submitting>>
  /\ UNCHANGED <<appVars, hookVars, uncaught, winVars, rateVars, otherVars>>

\* handleValidate up to its await.  The Test button is rendered for the API
\* source and is disabled while validating; the blank key is checked by the
\* handler itself, so the model does not rely on the button for it.
handleValidate ==
  /\ FormMounted
  /\ isApi
  /\ ~validating
  /\ op' = "handleValidate"
  /\ IF ~Truthy(Trim(apiKey))
       THEN /\ Issues(<<>>)
            /\ UNCHANGED <<validating, validated, error, valPending>>
       ELSE /\ validating' = TRUE
            /\ validated' = "null"
            /\ error' = "null"
            /\ Issues(<<ValidateCall>>)
            /\ valPending' = {ValidateCall}
  /\ UNCHANGED <<providerType, sourceType, name, configDir, apiKey, submitting>>
  /\ UNCHANGED <<appVars, hookVars, uncaught, winVars, rateVars, otherVars>>

\* the invocation resolves with valid: the rest of the try block, then finally
ValidateReturns(valid) ==
  /\ valPending # {}
  /\ validated' = IF valid THEN "true" ELSE "false"
  /\ error' = IF ~valid THEN "Invalid API key or insufficient permissions" ELSE error
  /\ validating' = FALSE
  /\ valPending' = {}
  /\ op' = IF valid THEN "handleValidate.then(true)" ELSE "handleValidate.then(false)"
  /\ Issues(<<>>)
  /\ UNCHANGED <<providerType, sourceType, name, configDir, apiKey, submitting>>
  /\ UNCHANGED <<appVars, hookVars, uncaught, winVars, rateVars, otherVars>>

\* handleValidate with try/finally and no catch block
ValidateRejectsNoCatch(e) ==
  /\ valPending # {}
  /\ validating' = FALSE
  /\ valPending' = {}
  /\ uncaught' = uncaught \cup {"handleValidate"}
  /\ op' = "handleValidate.catch"
  /\ Issues(<<>>)
  /\ UNCHANGED <<providerType, sourceType, name, configDir, apiKey, submitting,
                 validated, error>>
  /\ UNCHANGED <<appVars, hookVars, winVars, rateVars, otherVars>>

\* the invocation rejects with e: the catch block, then finally
ValidateRejects(e) ==
  /\ valPending # {}
  /\ validated' = "false"
  /\ error' = e
  /\ validating' = FALSE
  /\ valPending' = {}
  /\ op' = "handleValidate.catch"
  /\ Issues(<<>>)
  /\ UNCHANGED <<providerType, sourceType, name, configDir, apiKey, submitting>>
  /\ UNCHANGED <<appVars, hookVars, uncaught, winVars, rateVars, otherVars>>

\* the rejection values of the backend, as String(e) renders them
Errors == {"network error"}

\* the name placeholder, used when the name is blank
DefaultName == <<ProviderLabel(providerType)>> \o (IF isApi THEN <<" (API)">> ELSE <<>>)

AddProfileCall ==
  [cmd |-> "add_profile",
   id |-> <<providerType, IF isApi THEN "api" ELSE "account", nextId>>,
   name |-> IF Truthy(Trim(name)) THEN Trim(name) ELSE DefaultName,
   providerType |-> providerType,
   configDir |-> IF isApi THEN <<>> ELSE Trim(configDir),
   enabled |-> TRUE,
   sourceType |-> sourceType,
   apiKey |-> IF isApi THEN <<Trim(apiKey)>> ELSE <<>>]

\* handleSubmit without its check of a blank config directory
handleSubmitNoDirCheck ==
  /\ FormMounted
  /\ ~submitting
  /\ op' = "handleSubmit"
  /\ IF isApi /\ ~Truthy(Trim(apiKey))
       THEN /\ error' = "API key is required"
            /\ Issues(<<>>)
            /\ UNCHANGED <<submitting, subPending, nextId>>
       ELSE /\ nextId <= MaxSubmits
            /\ error' = "null"
            /\ submitting' = TRUE
            /\ Issues(<<AddProfileCall>>)
            /\ subPending' = subPending \cup {[call |-> AddProfileCall, live |-> TRUE]}
            /\ nextId' = nextId + 1
  /\ UNCHANGED <<providerType, sourceType, name, configDir, apiKey, validating,
                 validated, valPending>>
  /\ UNCHANGED <<view, profiles, backendProfiles, addedPending, hookVars, uncaught, winVars, rateVars, otherVars>>

\* handleSubmit up to its await.  The Add Profile button is disabled while
\* submitting; the required field is checked by the handler itself, so the
\* model does not rely on the button for it.
handleSubmit ==
  /\ FormMounted
  /\ ~submitting
  /\ op' = "handleSubmit"
  /\ IF isApi /\ ~Truthy(Trim(apiKey))
       THEN /\ error' = "API key is required"
            /\ Issues(<<>>)
            /\ UNCHANGED <<submitting, subPending, nextId>>
       ELSE IF ~isApi /\ ~Truthy(Trim(configDir))
       THEN /\ error' = "Config directory is required"
            /\ Issues(<<>>)
            /\ UNCHANGED <<submitting, subPending, nextId>>
       ELSE /\ nextId <= MaxSubmits
            /\ error' = "null"
            /\ submitting' = TRUE
            /\ Issues(<<AddProfileCall>>)
            /\ subPending' = subPending \cup {[call |-> AddProfileCall, live |-> TRUE]}
            /\ nextId' = nextId + 1
  /\ UNCHANGED <<providerType, sourceType, name, configDir, apiKey, validating,
                 validated, valPending>>
  /\ UNCHANGED <<view, profiles, backendProfiles, addedPending, hookVars, uncaught, winVars, rateVars, otherVars>>

\* add_profile resolves: onAdded() is called (handleProfileAdded starts and
\* awaits refreshProfiles), then finally
SubmitResolves(r) ==
  /\ r \in subPending
  /\ subPending' = subPending \ {r}
  /\ backendProfiles' = Append(backendProfiles, r.call.id)
  /\ addedPending' = addedPending + 1
  /\ IF r.live THEN submitting' = FALSE ELSE UNCHANGED submitting
  /\ op' = "handleSubmit.then"
  /\ Issues(<<[cmd |-> "get_profiles"]>>)
  /\ UNCHANGED <<providerType, sourceType, name, configDir, apiKey, validating,
                 validated, error, valPending>>
  /\ UNCHANGED <<view, profiles, nextId, hookVars, uncaught, winVars, rateVars, otherVars>>

\* add_profile rejects with e: the catch block, then finally
SubmitRejects(r, e) ==
  /\ r \in subPending
  /\ subPending' = subPending \ {r}
  /\ IF r.live
       THEN error' = e /\ submitting' = FALSE
       ELSE UNCHANGED <<error, submitting>>
  /\ op' = "handleSubmit.catch"
  /\ Issues(<<>>)
  /\ UNCHANGED <<providerType, sourceType, name, configDir, apiKey, validating,
                 validated, valPending>>
  /\ UNCHANGED <<view, profiles, backendProfiles, addedPending, nextId, hookVars, uncaught, winVars, rateVars, otherVars>>

----------------------------------------------------------------------------
(* hooks/useProviderData: useUsageStats, useActiveSessions, useDailyUsage *)

\* activeProfileId = null
NoProfile == <<>>

\* the profiles the backend has stored when the program starts
StoredProfiles == << <<"claude", "account", 0>>, <<"gemini", "account", 0>> >>

\* the hooks' state before any response: null, [] and []
Empty == [profileId |-> NoProfile, seq |-> 0]

\* A response carries the data of the profile it was fetched for, as of the
\* refresh that requested it.
Response(r) == [profileId |-> r.profileId, seq |-> r.seq]

GetUsageStats(p, n) == [cmd |-> "get_usage_stats", profileId |-> p, seq |-> n]

GetActiveSessions(p, n) == [cmd |-> "get_active_sessions", profileId |-> p, seq |-> n]

GetDailyUsage(p, n) == [cmd |-> "get_daily_usage", profileId |-> p, days |-> 7, seq |-> n]

\* the invocations of the three refresh callbacks bound to profile p, in the
\* order TrayPopup calls them; none when profileId is null
RefreshInvocations(p, n) ==
  IF p = NoProfile THEN <<>>
  ELSE <<GetUsageStats(p, n), GetActiveSessions(p, n), GetDailyUsage(p, n)>>

Range(s) == {s[i] : i \in 1..Len(s)}

\* refreshStats(); refreshSessions(); refreshDaily(), each bound to profile p,
\* up to their awaits
RefreshAll(p, n) ==
  /\ out' = RefreshInvocations(p, n)
  /\ pending' = pending \cup Range(RefreshInvocations(p, n))
  /\ IF p = NoProfile
       THEN stats' = Empty /\ loading' = FALSE /\ sessions' = Empty /\ data' = Empty
       ELSE UNCHANGED <<stats, loading, sessions, data>>

\* the effects of the three hooks, run when their refresh callback changes,
\* which is when profileId changes: reset the state, then refresh()
HookEffects(p, n) ==
  /\ pending' = pending \cup Range(RefreshInvocations(p, n))
  /\ stats' = Empty
  /\ loading' = (p # NoProfile)
  /\ sessions' = Empty
  /\ data' = Empty

\* responses handled one at a time, in the order of the invocations
ResolvesInOrder(r) ==
  /\ r \in pending
  /\ \A q \in pending : q.seq >= r.seq
  /\ r.cmd = "get_usage_stats" \/ GetUsageStats(r.profileId, r.seq) \notin pending
  /\ pending' = pending \ {r}
  /\ IF r.cmd = "get_usage_stats"
       THEN stats' = Response(r) /\ loading' = FALSE
       ELSE UNCHANGED <<stats, loading>>
  /\ sessions' = IF r.cmd = "get_active_sessions" THEN Response(r) ELSE sessions
  /\ data' = IF r.cmd = "get_daily_usage" THEN Response(r) ELSE data
  /\ op' = "refresh.then"
  /\ Issues(<<>>)
  /\ UNCHANGED <<activeProfileId, seq, intervals, profilesPending>>
  /\ UNCHANGED <<appVars, formVars, uncaught, winVars, rateVars, otherVars>>

\* a get_* invocation resolves: the rest of the try block, then finally
Resolves(r) ==
  /\ r \in pending
  /\ pending' = pending \ {r}
  /\ IF r.cmd = "get_usage_stats"
       THEN stats' = Response(r) /\ loading' = FALSE
       ELSE UNCHANGED <<stats, loading>>
  /\ sessions' = IF r.cmd = "get_active_sessions" THEN Response(r) ELSE sessions
  /\ data' = IF r.cmd = "get_daily_usage" THEN Response(r) ELSE data
  /\ op' = "refresh.then"
  /\ Issues(<<>>)
  /\ UNCHANGED <<activeProfileId, seq, intervals, profilesPending>>
  /\ UNCHANGED <<appVars, formVars, uncaught, winVars, rateVars, otherVars>>

\* the catch block asking again for what failed
RejectsAndRetries(r) ==
  /\ r \in pending
  /\ pending' = pending
  /\ loading' = loading
  /\ op' = "refresh.catch"
  /\ Issues(<<r>>)
  /\ UNCHANGED <<activeProfileId, stats, sessions, data, seq, intervals, profilesPending>>
  /\ UNCHANGED <<appVars, formVars, uncaught, winVars, rateVars, otherVars>>

\* a get_* invocation rejects: the catch block, then finally
Rejects(r) ==
  /\ r \in pending
  /\ pending' = pending \ {r}
  /\ loading' = IF r.cmd = "get_usage_stats" THEN FALSE ELSE loading
  /\ op' = "refresh.catch"
  /\ Issues(<<>>)
  /\ UNCHANGED <<activeProfileId, stats, sessions, data, seq, intervals, profilesPending>>
  /\ UNCHANGED <<appVars, formVars, uncaught, winVars, rateVars, otherVars>>

----------------------------------------------------------------------------
(* TrayPopup *)

\* the 5000 of setInterval, in milliseconds
RefreshIntervalMs == 5000

\* the auto-refresh effect without its check of the view
AutoRefreshEffectOnEveryView(v, p) == {[profileId |-> p, elapsed |-> 0]}

\* an auto-refresh effect that keeps the refresh callbacks of the mount
AutoRefreshEffectOfMount(v, p) ==
  IF v # "main" THEN {} ELSE {[profileId |-> NoProfile, elapsed |-> 0]}

\* The auto-refresh effect, run when view or a refresh callback changed: the
\* cleanup clears the interval the previous run set, and on the main view a
\* new interval is set whose callback is bound to profile p.
AutoRefreshEffect(v, p) ==
  IF v # "main" THEN {} ELSE {[profileId |-> p, elapsed |-> 0]}

\* the four calls of the interval callback and of the refresh button
RefreshCalls(p) ==
  << [fn |-> "refreshStats", profileId |-> p],
     [fn |-> "refreshSessions", profileId |-> p],
     [fn |-> "refreshDaily", profileId |-> p],
     [fn |-> "refreshRateLimits", profileId |-> p] >>

\* 1000 ms go by; a timer that is due fires before more time passes
TimePasses ==
  /\ intervals # {}
  /\ \A t \in intervals : t.elapsed < RefreshIntervalMs
  /\ intervals' = {[t EXCEPT !.elapsed = @ + 1000] : t \in intervals}
  /\ op' = "timePasses"
  /\ Issues(<<>>)
  /\ UNCHANGED <<activeProfileId, stats, loading, sessions, data, pending, seq,
                 profilesPending>>
  /\ UNCHANGED <<appVars, formVars, uncaught, winVars, rateVars, otherVars>>

\* the interval callback of timer t
TimerTick(t) ==
  /\ t \in intervals
  /\ t.elapsed = RefreshIntervalMs
  /\ seq < MaxRefreshes
  /\ seq' = seq + 1
  /\ calls' = RefreshCalls(t.profileId)
  /\ RefreshAll(t.profileId, seq + 1)
  /\ intervals' = (intervals \ {t}) \cup {[t EXCEPT !.elapsed = 0]}
  /\ op' = "timerTick"
  /\ UNCHANGED <<activeProfileId, profilesPending>>
  /\ UNCHANGED <<appVars, formVars, uncaught, winVars, rateVars, otherVars>>

\* the refresh button of the title bar
ManualRefresh ==
  /\ view = "main"
  /\ seq < MaxRefreshes
  /\ seq' = seq + 1
  /\ calls' = RefreshCalls(activeProfileId)
  /\ RefreshAll(activeProfileId, seq + 1)
  /\ op' = "manualRefresh"
  /\ UNCHANGED <<activeProfileId, intervals, profilesPending>>
  /\ UNCHANGED <<appVars, formVars, uncaught, winVars, rateVars, otherVars>>

\* update_settings invocations whose SettingsPanel has unmounted: its
\* setSettings does nothing any more
Unmounted(reqs) == {[r EXCEPT !.live = FALSE] : r \in reqs}

GetSettings == [cmd |-> "get_settings"]

\* SettingsPanel mounts when the view becomes "settings": its useSettings
\* starts at null and its effect invokes get_settings; it unmounts when the
\* view leaves "settings".
PanelEffect(v) ==
  IF v = "settings" /\ view # "settings"
    THEN /\ panelSettings' = "null"
         /\ panelGetPending' = TRUE
         /\ UNCHANGED updatePending
    ELSE IF v # "settings" /\ view = "settings"
      THEN /\ panelSettings' = "null"
           /\ panelGetPending' = FALSE
           /\ updatePending' = Unmounted(updatePending)
      ELSE UNCHANGED panelVars

\* the width of the popup, in logical pixels
PopupWidth == 380

\* Math.round(px * scale), the scale s in hundredths
ScaledPx(px, s) == (px * s + 50) \div 100

\* a height that grows with the first session already
targetHFromFirst(count) == IF count < 1 THEN 490 ELSE IF count = 1 THEN 530 ELSE 600

\* count <= 1 ? 490 : count === 2 ? 530 : 600
targetH(count) == IF count <= 1 THEN 490 ELSE IF count = 2 THEN 530 ELSE 600

\* win.setSize(new PhysicalSize(W, H)) of the dynamic height effect
SetSize(count, s) ==
  [cmd |-> "setSize", width |-> ScaledPx(PopupWidth, s),
   height |-> ScaledPx(targetH(count), s)]

\* the dynamic height effect after a render with count sessions on view v:
\* it runs when sessions.length or view has changed
ResizeEffect(count, v) ==
  IF v = "main" /\ (count # sessionCount \/ v # view)
    THEN <<SetSize(count, scale)>> ELSE <<>>

\* what the mount effects of the view v issue, coming from view
ViewInvocations(v) ==
  IF v = "settings" /\ view # "settings" THEN <<GetSettings>>
  ELSE ResizeEffect(sessionCount, v)

\* What follows setActiveProfileId(p) with a new p, on view v: the hooks get a
\* new refresh callback, so their effects and the auto-refresh effect run.
ProfileChanged(p, v) ==
  /\ seq < MaxRefreshes
  /\ seq' = seq + 1
  /\ activeProfileId' = p
  /\ HookEffects(p, seq + 1)
  /\ out' = ViewInvocations(v) \o RefreshInvocations(p, seq + 1)
  /\ calls' = <<>>
  /\ intervals' = AutoRefreshEffect(v, p)

\* a tab of ProviderTabs: onSelect = setActiveProfileId.  Selecting the active
\* tab sets the same state and changes nothing.
SelectProfile(p) ==
  /\ view = "main"
  /\ p \in Range(profiles)
  /\ p # activeProfileId
  /\ ProfileChanged(p, view)
  /\ op' = "selectProfile"
  /\ UNCHANGED profilesPending
  /\ UNCHANGED <<appVars, formVars, uncaught, winVars, rateVars, otherVars>>

\* an effect that selects nothing
AutoSelectsNever(list) == FALSE

\* the profile list the UI holds becomes list: setProfiles, then the
\* auto-select effect
AutoSelects(list) == Len(list) > 0 /\ activeProfileId = NoProfile

\* get_profiles of the mount effect of useProfiles resolves (ok) or rejects
ProfilesLoaded(ok) ==
  /\ profilesPending > 0
  /\ profilesPending' = profilesPending - 1
  /\ profiles' = IF ok THEN backendProfiles ELSE profiles
  /\ IF AutoSelects(profiles')
       THEN ProfileChanged(profiles'[1], view)
       ELSE /\ Issues(<<>>)
            /\ UNCHANGED <<activeProfileId, stats, loading, sessions, data, pending,
                           seq, intervals>>
  /\ op' = "refreshProfiles.then"
  /\ UNCHANGED <<view, backendProfiles, subPending, addedPending, nextId>>
  /\ UNCHANGED <<formVars, uncaught, winVars, rateVars, otherVars>>

\* the effects of a change of view from view to v: the auto-refresh effect,
\* and the mounting or unmounting of AddProfileForm and of SettingsPanel
ViewChanged(v) ==
  /\ view' = v
  /\ PanelEffect(v)
  /\ UNCHANGED <<coreVars, themeVars, removeVars, resizeVars>>
  /\ intervals' = AutoRefreshEffect(v, activeProfileId)
  /\ IF v = "addProfile" \/ view = "addProfile"
       THEN FormMount /\ subPending' = Orphaned(subPending)
       ELSE UNCHANGED <<formVars, subPending>>

\* the settings button of the title bar
OpenSettings ==
  /\ ~dialogPending
  /\ view = "main"
  /\ ViewChanged("settings")
  /\ op' = "openSettings"
  /\ Issues(ViewInvocations("settings"))
  /\ UNCHANGED <<profiles, backendProfiles, addedPending, nextId>>
  /\ UNCHANGED <<activeProfileId, stats, loading, sessions, data, pending, seq,
                 profilesPending, uncaught, winVars, rateVars>>

\* onBack of SettingsPanel
SettingsBack ==
  /\ ~dialogPending
  /\ view = "settings"
  /\ ViewChanged("main")
  /\ op' = "settingsBack"
  /\ Issues(ViewInvocations("main"))
  /\ UNCHANGED <<profiles, backendProfiles, addedPending, nextId>>
  /\ UNCHANGED <<activeProfileId, stats, loading, sessions, data, pending, seq,
                 profilesPending, uncaught, winVars, rateVars>>

\* onAddProfile of SettingsPanel, and the Add Profile button the main view
\* shows when there is no active profile
OpenAddProfile ==
  /\ ~dialogPending
  /\ \/ view = "settings"
     \/ view = "main" /\ activeProfileId \notin Range(profiles)
  /\ ViewChanged("addProfile")
  /\ op' = "openAddProfile"
  /\ Issues(ViewInvocations("addProfile"))
  /\ UNCHANGED <<profiles, backendProfiles, addedPending, nextId>>
  /\ UNCHANGED <<activeProfileId, stats, loading, sessions, data, pending, seq,
                 profilesPending, uncaught, winVars, rateVars>>

\* onBack of AddProfileForm
FormBack ==
  /\ ~dialogPending
  /\ view = "addProfile"
  /\ ViewChanged("settings")
  /\ op' = "formBack"
  /\ Issues(ViewInvocations("settings"))
  /\ UNCHANGED <<profiles, backendProfiles, addedPending, nextId>>
  /\ UNCHANGED <<activeProfileId, stats, loading, sessions, data, pending, seq,
                 profilesPending, uncaught, winVars, rateVars>>

\* handleProfileAdded after its await: refreshProfiles() has set the list (ok)
\* or logged the failure, then setView("settings")
ProfileAddedContinues(ok) ==
  /\ addedPending > 0
  /\ addedPending' = addedPending - 1
  /\ profiles' = IF ok THEN backendProfiles ELSE profiles
  /\ view' = "settings"
  /\ PanelEffect("settings")
  /\ IF view = "addProfile"
       THEN FormMount /\ subPending' = Orphaned(subPending)
       ELSE UNCHANGED <<formVars, subPending>>
  /\ IF AutoSelects(profiles')
       THEN ProfileChanged(profiles'[1], "settings")
       ELSE /\ Issues(ViewInvocations("settings"))
            /\ intervals' = IF view = "settings" THEN intervals
                            ELSE AutoRefreshEffect("settings", activeProfileId)
            /\ UNCHANGED <<activeProfileId, stats, loading, sessions, data, pending, seq>>
  /\ op' = "handleProfileAdded.then"
  /\ UNCHANGED <<backendProfiles, nextId, profilesPending, uncaught, winVars, rateVars,
                 coreVars, themeVars, removeVars, resizeVars>>

----------------------------------------------------------------------------
(* lib/windowState, the blur/focus effect of TrayPopup, and the directory  *)
(* picker of AddProfileForm.  The native picker is modal: while it shows,  *)
(* the webview gets no mouse events.                                       *)

\* startManualDrag, the onMouseDown of the title bars of the main view and of
\* AddProfileForm, for a press with e.buttons = buttons, on a button element
\* or not
startManualDrag(buttons, onButton) ==
  /\ ~dialogPending
  /\ view \in {"main", "addProfile"}
  /\ pressed = "none"
  /\ op' = "startManualDrag"
  /\ IF buttons # 1 \/ onButton
       THEN /\ pressed' = "ignored"
            /\ Issues(<<>>)
            /\ UNCHANGED <<dragging, posPending, presses>>
       ELSE /\ presses < MaxPresses
            /\ presses' = presses + 1
            /\ pressed' = "accepted"
            /\ dragging' = TRUE
            /\ posPending' = posPending + 1
            /\ Issues(<<[cmd |-> "win.outerPosition"]>>)
  /\ UNCHANGED <<dialogOpen, dialogPending, mouseUpListeners, dragTimers, blurTimeout,
                 leakedHides, hidden>>
  /\ UNCHANGED <<appVars, formVars, hookVars, rateVars, otherVars, uncaught>>

\* outerPosition() resolves: the then callback registers onMouseMove and
\* onMouseUp on document
PositionResolves ==
  /\ posPending > 0
  /\ posPending' = posPending - 1
  /\ mouseUpListeners' = mouseUpListeners + 1
  /\ op' = "outerPosition.then"
  /\ Issues(<<>>)
  /\ UNCHANGED <<dialogOpen, dragging, dialogPending, pressed, presses, dragTimers,
                 blurTimeout, leakedHides, hidden>>
  /\ UNCHANGED <<appVars, formVars, hookVars, rateVars, otherVars, uncaught>>

\* outerPosition() rejects: there is no catch
PositionRejects ==
  /\ posPending > 0
  /\ posPending' = posPending - 1
  /\ uncaught' = uncaught \cup {"startManualDrag"}
  /\ op' = "outerPosition.catch"
  /\ Issues(<<>>)
  /\ UNCHANGED <<dialogOpen, dragging, dialogPending, pressed, presses,
                 mouseUpListeners, dragTimers, blurTimeout, leakedHides, hidden>>
  /\ UNCHANGED <<appVars, formVars, hookVars, rateVars, otherVars>>

SetTimeoutCalls(n, call) == [i \in 1..n |-> call]

\* the mouse moves with the button held: every registered onMouseMove runs
MouseMove ==
  /\ pressed # "none"
  /\ mouseUpListeners > 0
  /\ op' = "onMouseMove"
  /\ Issues(SetTimeoutCalls(mouseUpListeners, [cmd |-> "win.setPosition"]))
  /\ UNCHANGED <<appVars, formVars, hookVars, winVars, rateVars, otherVars, uncaught>>

\* the button is released: every registered onMouseUp runs, removes the two
\* listeners and sets its 200 ms timer
MouseUp ==
  /\ pressed # "none"
  /\ pressed' = "none"
  /\ dragTimers' = dragTimers + mouseUpListeners
  /\ mouseUpListeners' = 0
  /\ op' = "onMouseUp"
  /\ Issues(SetTimeoutCalls(mouseUpListeners,
                            [cmd |-> "setTimeout", fn |-> "setDragging(false)", ms |-> 200]))
  /\ UNCHANGED <<dialogOpen, dragging, dialogPending, presses, posPending, blurTimeout,
                 leakedHides, hidden>>
  /\ UNCHANGED <<appVars, formVars, hookVars, rateVars, otherVars, uncaught>>

\* a 200 ms timer of onMouseUp fires
DragTimerFires ==
  /\ dragTimers > 0
  /\ dragTimers' = dragTimers - 1
  /\ dragging' = FALSE
  /\ op' = "dragTimer"
  /\ Issues(<<>>)
  /\ UNCHANGED <<dialogOpen, dialogPending, pressed, presses, posPending,
                 mouseUpListeners, blurTimeout, leakedHides, hidden>>
  /\ UNCHANGED <<appVars, formVars, hookVars, rateVars, otherVars, uncaught>>

isDialogOpen == dialogOpen

isDragging == dragging

\* the tauri://blur listener
Blur ==
  /\ ~hidden
  /\ op' = "blur"
  /\ IF ~isDialogOpen /\ ~isDragging
       THEN /\ blurTimeout = "pending" => leakedHides < MaxLeakedHides
            /\ leakedHides' = IF blurTimeout = "pending" THEN leakedHides + 1
                              ELSE leakedHides
            /\ blurTimeout' = "pending"
            /\ Issues(<<[cmd |-> "setTimeout", fn |-> "win.hide()", ms |-> 150]>>)
       ELSE /\ Issues(<<>>)
            /\ UNCHANGED <<blurTimeout, leakedHides>>
  /\ UNCHANGED <<dialogOpen, dragging, dialogPending, pressed, presses, posPending,
                 mouseUpListeners, dragTimers, hidden>>
  /\ UNCHANGED <<appVars, formVars, hookVars, rateVars, otherVars, uncaught>>

\* the tauri://focus listener; a hidden window gets the focus when the tray
\* icon shows it again
Focus ==
  /\ blurTimeout' = "null"
  /\ hidden' = FALSE
  /\ op' = "focus"
  /\ Issues(<<>>)
  /\ UNCHANGED <<dialogOpen, dragging, dialogPending, pressed, presses, posPending,
                 mouseUpListeners, dragTimers, leakedHides>>
  /\ UNCHANGED <<appVars, formVars, hookVars, rateVars, otherVars, uncaught>>

\* a 150 ms timer of the blur listener fires: the one the handle refers to
\* (tracked), or an earlier one
HideTimerFires(tracked) ==
  /\ IF tracked
       THEN /\ blurTimeout = "pending"
            /\ blurTimeout' = "fired"
            /\ UNCHANGED leakedHides
       ELSE /\ leakedHides > 0
            /\ leakedHides' = leakedHides - 1
            /\ UNCHANGED blurTimeout
  /\ hidden' = TRUE
  /\ op' = "hideTimer"
  /\ Issues(<<[cmd |-> "win.hide"]>>)
  /\ UNCHANGED <<dialogOpen, dragging, dialogPending, pressed, presses, posPending,
                 mouseUpListeners, dragTimers>>
  /\ UNCHANGED <<appVars, formVars, hookVars, rateVars, otherVars, uncaught>>

\* the folder button of the config directory input, up to its await
PickDirectory ==
  /\ FormMounted
  /\ ~isApi
  /\ ~dialogPending
  /\ pressed = "none"
  /\ dialogOpen' = TRUE
  /\ dialogPending' = TRUE
  /\ op' = "pickDirectory"
  /\ Issues(<<[cmd |-> "open", directory |-> TRUE]>>)
  /\ UNCHANGED <<dragging, pressed, presses, posPending, mouseUpListeners, dragTimers,
                 blurTimeout, leakedHides, hidden>>
  /\ UNCHANGED <<appVars, formVars, hookVars, rateVars, otherVars, uncaught>>

\* open() resolves with the chosen directory, or with null (<<>>) on cancel:
\* the rest of the try block, then finally
DialogResolves(selected) ==
  /\ dialogPending
  /\ dialogPending' = FALSE
  /\ configDir' = IF Truthy(selected) /\ FormMounted THEN selected ELSE configDir
  /\ dialogOpen' = FALSE
  /\ op' = "pickDirectory.then"
  /\ Issues(<<>>)
  /\ UNCHANGED <<providerType, sourceType, name, apiKey, validating, validated,
                 submitting, error, valPending>>
  /\ UNCHANGED <<dragging, pressed, presses, posPending, mouseUpListeners, dragTimers,
                 blurTimeout, leakedHides, hidden>>
  /\ UNCHANGED <<appVars, hookVars, rateVars, otherVars, uncaught>>

\* open() rejects: finally runs and, there being no catch, the exception escapes
DialogRejects ==
  /\ dialogPending
  /\ dialogPending' = FALSE
  /\ dialogOpen' = FALSE
  /\ uncaught' = uncaught \cup {"pickDirectory"}
  /\ op' = "pickDirectory.finally"
  /\ Issues(<<>>)
  /\ UNCHANGED <<dragging, pressed, presses, posPending, mouseUpListeners, dragTimers,
                 blurTimeout, leakedHides, hidden>>
  /\ UNCHANGED <<appVars, formVars, hookVars, rateVars, otherVars>>

----------------------------------------------------------------------------
(* RateLimits.  A utilization is a number of quarters of a percent, so that *)
(* 59.75 is 239 and 100 is 400; all such values are exact as JavaScript    *)
(* numbers.  The reset time of a window takes no part in what is modelled. *)

NullWindow == [isNull |-> TRUE, label |-> "", utilization |-> 0]

NullStatus == [isNull |-> TRUE, available |-> FALSE, fiveHour |-> NullWindow,
               sevenDay |-> NullWindow, sevenDayOpus |-> NullWindow]

\* Math.min
Min(a, b) == IF a <= b THEN a ELSE b

\* Number.prototype.toFixed(1), in tenths: the nearest tenth, the larger one
\* of two equally near
ToFixed1(u) == (5 * u + 1) \div 2

barColor(pct) ==
  IF pct >= 4 * 80 THEN "#ef4444"
  ELSE IF pct >= 4 * 60 THEN "#f59e0b"
  ELSE "var(--provider-claude)"

\* WindowBar with the utilization clamped before anything is computed from it
WindowBarClampedFirst(w) ==
  LET u == Min(w.utilization, 4 * 100)
  IN  [label |-> w.label,
       color |-> barColor(u),
       isHigh |-> u >= 4 * 80,
       text |-> ToFixed1(u),
       width |-> u,
       window |-> w]

\* what WindowBar renders for w, and w as the render leaves it
WindowBar(w) ==
  [label |-> w.label,
   color |-> barColor(w.utilization),
   isHigh |-> w.utilization >= 4 * 80,
   text |-> ToFixed1(w.utilization),
   width |-> Min(w.utilization, 4 * 100),
   window |-> w]

\* the component returned null
Nothing == [isNull |-> TRUE, bars |-> <<>>]

NotNull(w) == ~w.isNull

\* RateLimits without its check of status.available
RateLimitsIgnoringAvailable(st) ==
  IF st.isNull THEN Nothing
  ELSE LET windows == SelectSeq(<<st.fiveHour, st.sevenDay, st.sevenDayOpus>>, NotNull)
       IN  IF Len(windows) = 0 THEN Nothing
           ELSE [isNull |-> FALSE,
                 bars |-> [i \in 1..Len(windows) |-> WindowBar(windows[i])]]

RateLimits(st) ==
  IF st.isNull \/ ~st.available THEN Nothing
  ELSE LET windows == SelectSeq(<<st.fiveHour, st.sevenDay, st.sevenDayOpus>>, NotNull)
       IN  IF Len(windows) = 0 THEN Nothing
           ELSE [isNull |-> FALSE,
                 bars |-> [i \in 1..Len(windows) |-> WindowBar(windows[i])]]

\* the utilizations tried: 0, 59.75, 60, 79.75, 80, 100, 100.25 and 250 percent
Utilizations == {0, 239, 240, 319, 320, 400, 401, 1000}

Windows(label) ==
  {NullWindow} \cup {[isNull |-> FALSE, label |-> label, utilization |-> u] :
                      u \in Utilizations}

\* the values of the status prop
StatusValues ==
  {NullStatus} \cup
  [isNull : {FALSE}, available : BOOLEAN, fiveHour : Windows("5h"),
   sevenDay : Windows("7d"), sevenDayOpus : Windows("7d opus")]

\* React renders RateLimits with the status prop
RenderRateLimits ==
  /\ rendered' = RateLimits(status)
  /\ op' = "RateLimits"
  /\ Issues(<<>>)
  /\ UNCHANGED status
  /\ UNCHANGED <<appVars, formVars, hookVars, winVars, uncaught, otherVars>>

----------------------------------------------------------------------------
(* The usage engine of the backend (src-tauri), which answers              *)
(* get_usage_stats, get_active_sessions and get_daily_usage: LogRecord     *)
(* Parser, Aggregator and Cache Store.  One log file per calendar day; the *)
(* clock counts ticks, DayLength of them to a day.                         *)

\* ticks in a calendar day
DayLength == 2

\* activityWindow(), in ticks
ActivityWindow == 1

DayOf(t) == t \div DayLength

Days == 0..DayOf(MaxClock)

\* a record that does not decode
Malformed ==
  [valid |-> FALSE, sessionId |-> "", model |-> "", inputTokens |-> 0,
   outputTokens |-> 0, timestamp |-> 0]

\* a record that decodes to the event (sessionId, model, tokens in, tokens out)
ValidRecord(s, m, i, o) ==
  [valid |-> TRUE, sessionId |-> s, model |-> m, inputTokens |-> i,
   outputTokens |-> o, timestamp |-> 0]

\* the record a past day's file gets when it is written again
LateRecord == ValidRecord("A", "m1", 100, 50)

\* what a CLI tool may write to its log
RecordValues ==
  {Malformed, ValidRecord("A", "m1", 100, 50), ValidRecord("B", "m1", 10, 5),
   ValidRecord("B", "m2", 7, 3)}

\* LogRecord Parser, from record i of a file: a record that does not decode
\* is skipped and counted, and the pass continues from the next record
RECURSIVE ParseFrom(_, _)
\* the parser giving up at the first record that does not decode
ParseStoppingAtError(recs, i) ==
  IF i > Len(recs) THEN [events |-> <<>>, parseErrors |-> 0]
  ELSE IF recs[i].valid
         THEN LET rest == ParseFrom(recs, i + 1)
              IN  [events |-> <<recs[i]>> \o rest.events,
                   parseErrors |-> rest.parseErrors]
         ELSE [events |-> <<>>, parseErrors |-> 1]

ParseFrom(recs, i) ==
  IF i > Len(recs) THEN [events |-> <<>>, parseErrors |-> 0]
  ELSE LET rest == ParseFrom(recs, i + 1)
       IN  IF recs[i].valid
             THEN [events |-> <<recs[i]>> \o rest.events,
                   parseErrors |-> rest.parseErrors]
             ELSE [events |-> rest.events,
                   parseErrors |-> rest.parseErrors + 1]

Parse(recs) == ParseFrom(recs, 1)

\* the accumulators of the Aggregator before the first event
ZeroStats ==
  [totalInputTokens |-> 0, totalOutputTokens |-> 0, totalMessages |-> 0,
   modelBreakdown |-> <<>>, sessionMap |-> <<>>]

\* the accumulator of key k in the mapping f, or zero when k is new
At(f, k, zero) == IF k \in DOMAIN f THEN f[k] ELSE zero

ZeroModel == [inputTokens |-> 0, outputTokens |-> 0]

ZeroSession == [lastActive |-> 0, messageCount |-> 0, tokensUsed |-> 0]

Max(a, b) == IF a >= b THEN a ELSE b

\* the Aggregator keeping, per model, the tokens of the last event only
AddEventLastWins(acc, e) ==
  [totalInputTokens |-> acc.totalInputTokens + e.inputTokens,
   totalOutputTokens |-> acc.totalOutputTokens + e.outputTokens,
   totalMessages |-> acc.totalMessages + 1,
   modelBreakdown |->
     [m \in DOMAIN acc.modelBreakdown \cup {e.model} |->
        IF m = e.model
          THEN [inputTokens |-> e.inputTokens, outputTokens |-> e.outputTokens]
          ELSE acc.modelBreakdown[m]],
   sessionMap |->
     [s \in DOMAIN acc.sessionMap \cup {e.sessionId} |->
        IF s = e.sessionId
          THEN LET old == At(acc.sessionMap, s, ZeroSession)
               IN  [lastActive |-> Max(old.lastActive, e.timestamp),
                    messageCount |-> old.messageCount + 1,
                    tokensUsed |-> old.tokensUsed + e.inputTokens + e.outputTokens]
          ELSE acc.sessionMap[s]]]

\* Aggregator, one event: the totals, the accumulator of the event's model
\* and the accumulator of its session (lastActive is the maximum timestamp)
AddEvent(acc, e) ==
  [totalInputTokens |-> acc.totalInputTokens + e.inputTokens,
   totalOutputTokens |-> acc.totalOutputTokens + e.outputTokens,
   totalMessages |-> acc.totalMessages + 1,
   modelBreakdown |->
     [m \in DOMAIN acc.modelBreakdown \cup {e.model} |->
        IF m = e.model
          THEN LET old == At(acc.modelBreakdown, m, ZeroModel)
               IN  [inputTokens |-> old.inputTokens + e.inputTokens,
                    outputTokens |-> old.outputTokens + e.outputTokens]
          ELSE acc.modelBreakdown[m]],
   sessionMap |->
     [s \in DOMAIN acc.sessionMap \cup {e.sessionId} |->
        IF s = e.sessionId
          THEN LET old == At(acc.sessionMap, s, ZeroSession)
               IN  [lastActive |-> Max(old.lastActive, e.timestamp),
                    messageCount |-> old.messageCount + 1,
                    tokensUsed |-> old.tokensUsed + e.inputTokens + e.outputTokens]
          ELSE acc.sessionMap[s]]]

\* Aggregator: fold(events), iterating the events once
RECURSIVE FoldFrom(_, _, _)
FoldFrom(events, i, acc) ==
  IF i > Len(events) THEN acc ELSE FoldFrom(events, i + 1, AddEvent(acc, events[i]))

Fold(events) == FoldFrom(events, 1, ZeroStats)

\* Session activity, with the boundary counted as active
IsActiveInclusive(now, lastActive) == now - lastActive <= ActivityWindow

\* Session activity: active iff now - lastActive < provider.activityWindow()
IsActive(now, lastActive) == now - lastActive < ActivityWindow

\* the Session snapshots of a fold, taken at time now
Sessions(st, now) ==
  [s \in DOMAIN st.sessionMap |->
     [lastActive |-> st.sessionMap[s].lastActive,
      messageCount |-> st.sessionMap[s].messageCount,
      isActive |-> IsActive(now, st.sessionMap[s].lastActive)]]

\* the DailyUsage of a day's fold
Daily(st) ==
  [inputTokens |-> st.totalInputTokens, outputTokens |-> st.totalOutputTokens,
   sessions |-> Cardinality(DOMAIN st.sessionMap), messages |-> st.totalMessages]

\* the cheap fingerprint of a file: size and modification time
FingerprintOf(recs, mtime) == [size |-> Len(recs), mtime |-> mtime]

Fingerprint(d) == FingerprintOf(files[d], mtimes[d])

\* a day without a cache entry
NoEntry ==
  [present |-> FALSE, stats |-> ZeroStats, fingerprint |-> FingerprintOf(<<>>, 0)]

Miss == [hit |-> FALSE, stats |-> ZeroStats]

\* Cache Store: put(profile, day, stats, fingerprint) replaces the entry
\* whole
Put(c, d, st, fp) ==
  [c EXCEPT ![d] = [present |-> TRUE, stats |-> st, fingerprint |-> fp]]

\* the store trusting any stored entry
GetIgnoringFingerprint(c, d, fp) ==
  IF c[d].present
    THEN [hit |-> TRUE, stats |-> c[d].stats]
    ELSE Miss

\* Cache Store: get(profile, day), validated against the fingerprint fp
\* recomputed from the day's files: the entry is valid iff the stored
\* fingerprint matches
Get(c, d, fp) ==
  IF c[d].present /\ c[d].fingerprint = fp
    THEN [hit |-> TRUE, stats |-> c[d].stats]
    ELSE Miss

\* the policy without the rule for today
LookupIncludingToday(c, d, fp, today) == Get(c, d, fp)

\* Cache Store policy: "today" is always treated as mismatched; only a
\* completed past day is looked up
Lookup(c, d, fp, today) == IF d = today THEN Miss ELSE Get(c, d, fp)

\* nothing returned yet
NoResult ==
  [at |-> 0, matched |-> {}, hits |-> {}, puts |-> {}, events |-> <<>>,
   parseErrors |-> 0, usage |-> ZeroStats, sessions |-> <<>>,
   daily |-> [d \in Days |-> Daily(ZeroStats)]]

InitCore ==
  /\ clock = 0
  /\ files = [d \in Days |-> <<>>]
  /\ mtimes = [d \in Days |-> 0]
  /\ cache = [d \in Days |-> NoEntry]
  /\ result = NoResult

\* the user interface is not involved
uiVars == <<appVars, formVars, hookVars, winVars, rateVars, out, calls, uncaught,
            themeVars, panelVars, removeVars, resizeVars>>

TotalRecords == LET n[d \in Days \cup {-1}] == IF d = -1 THEN 0 ELSE n[d - 1] + Len(files[d])
                IN  n[DayOf(MaxClock)]

\* a CLI tool appends record rec to today's log, stamped now
AppendRecord(rec) ==
  /\ TotalRecords < MaxRecords
  /\ files' = [files EXCEPT ![DayOf(clock)] = Append(@, [rec EXCEPT !.timestamp = clock])]
  /\ mtimes' = [mtimes EXCEPT ![DayOf(clock)] = clock]
  /\ op' = "append"
  /\ UNCHANGED <<clock, cache, result, uiVars>>

\* time passes
Tick ==
  /\ clock < MaxClock
  /\ clock' = clock + 1
  /\ op' = "tick"
  /\ UNCHANGED <<files, mtimes, cache, result, uiVars>>

\* the file of a past day d is written again out-of-band, a record added
Touch(d, rec) ==
  /\ d < DayOf(clock)
  /\ TotalRecords < MaxRecords
  /\ files' = [files EXCEPT ![d] = Append(@, [rec EXCEPT !.timestamp = d * DayLength])]
  /\ mtimes' = [mtimes EXCEPT ![d] = clock]
  /\ op' = "touch"
  /\ UNCHANGED <<clock, cache, result, uiVars>>

\* One refresh of the engine: for each day up to today, serve the cached
\* stats on a hit, else parse and fold the day's file and put the entry;
\* the usage and the sessions are those of today.
Refresh ==
  LET today == DayOf(clock)
      upTo == {d \in Days : d <= today}
      lookup == [d \in Days |-> Lookup(cache, d, Fingerprint(d), today)]
      parsed == [d \in Days |-> Parse(files[d])]
      fresh == [d \in Days |-> Fold(parsed[d].events)]
      served == [d \in Days |-> IF lookup[d].hit THEN lookup[d].stats ELSE fresh[d]]
      missed == {d \in upTo : ~lookup[d].hit}
      PutAll[d \in Days \cup {-1}] ==
        IF d = -1 THEN cache
        ELSE IF d \in missed THEN Put(PutAll[d - 1], d, fresh[d], Fingerprint(d))
             ELSE PutAll[d - 1]
  IN  /\ cache' = PutAll[DayOf(MaxClock)]
      /\ result' =
           [at |-> clock,
            matched |-> {d \in upTo : cache[d].present
                                        /\ cache[d].fingerprint = Fingerprint(d)},
            hits |-> {d \in upTo : lookup[d].hit},
            puts |-> missed,
            events |-> parsed[today].events,
            parseErrors |-> parsed[today].parseErrors,
            usage |-> served[today],
            sessions |-> Sessions(served[today], clock),
            daily |-> [d \in Days |-> Daily(served[d])]]
      /\ op' = "refresh"
      /\ UNCHANGED <<clock, files, mtimes, uiVars>>

----------------------------------------------------------------------------
(* The theme: lib/theme applyTheme, the theme effect of App, useSettings,  *)
(* and the theme buttons of SettingsPanel.  App and SettingsPanel each     *)
(* call useSettings, so each holds a settings state of its own.            *)

Themes == {"system", "light", "dark"}

\* applyTheme(theme): the value dataset.theme gets, given the OS preference
applyTheme(theme, prefersDark) ==
  IF theme = "system"
    THEN IF prefersDark THEN "dark" ELSE "light"
    ELSE theme

\* settings?.theme || "system" of the theme effect of App
EffectTheme(settings) == IF settings = "null" THEN "system" ELSE settings

\* App after its mount, with the stored theme and the OS preference given:
\* get_settings is in flight and the theme effect has run with settings
\* null, so applyTheme("system") and the change listener is registered
ThemeAtStart(stored, prefersDark) ==
  /\ appSettings = "null"
  /\ appGetPending = TRUE
  /\ panelSettings = "null"
  /\ panelGetPending = FALSE
  /\ updatePending = {}
  /\ backendTheme = stored
  /\ osDark = prefersDark
  /\ datasetTheme = applyTheme(EffectTheme("null"), osDark)
  /\ mqListener = (EffectTheme("null") = "system")
  /\ themeClicks = 0
  /\ lastSelected = "none"

\* everything but the theme, the panel and the step taken
notThemeVars ==
  <<appVars, formVars, hookVars, winVars, rateVars, coreVars, removeVars, resizeVars,
    calls, uncaught>>

\* get_settings of App resolves (ok) or rejects: setSettings(result), and
\* the theme effect runs again because settings?.theme changed
AppSettingsLoaded(ok) ==
  /\ appGetPending
  /\ appGetPending' = FALSE
  /\ IF ok
       THEN /\ appSettings' = backendTheme
            /\ datasetTheme' = applyTheme(backendTheme, osDark)
            /\ mqListener' = (backendTheme = "system")
       ELSE UNCHANGED <<appSettings, datasetTheme, mqListener>>
  /\ op' = "App.refresh.then"
  /\ out' = <<>>
  /\ UNCHANGED <<backendTheme, osDark, themeClicks, lastSelected, panelVars, notThemeVars>>

\* get_settings of the mounted SettingsPanel resolves (ok) or rejects
PanelSettingsLoaded(ok) ==
  /\ panelGetPending
  /\ panelGetPending' = FALSE
  /\ panelSettings' = IF ok THEN backendTheme ELSE panelSettings
  /\ op' = "SettingsPanel.refresh.then"
  /\ out' = <<>>
  /\ UNCHANGED <<updatePending, themeVars, notThemeVars>>

UpdateSettings(t, n) == [cmd |-> "update_settings", theme |-> t, id |-> n, live |-> TRUE]

\* a theme button of SettingsPanel: update({...settings, theme}) up to its
\* await, then applyTheme(theme)
SelectTheme(t) ==
  /\ view = "settings"
  /\ panelSettings # "null"
  /\ themeClicks < MaxThemeClicks
  /\ themeClicks' = themeClicks + 1
  /\ updatePending' = updatePending \cup {UpdateSettings(t, themeClicks + 1)}
  /\ datasetTheme' = applyTheme(t, osDark)
  /\ op' = "selectTheme"
  /\ out' = <<UpdateSettings(t, themeClicks + 1)>>
  /\ UNCHANGED <<appSettings, appGetPending, backendTheme, osDark, mqListener,
                 lastSelected, panelSettings, panelGetPending, notThemeVars>>

\* update_settings resolves: the backend has stored the settings, and
\* update sets the settings state of the SettingsPanel that called it
UpdateResolves(u) ==
  /\ u \in updatePending
  /\ updatePending' = updatePending \ {u}
  /\ backendTheme' = u.theme
  /\ lastSelected' = u.theme
  /\ panelSettings' = IF u.live THEN u.theme ELSE panelSettings
  /\ op' = "update.then"
  /\ out' = <<>>
  /\ UNCHANGED <<appSettings, appGetPending, osDark, datasetTheme, mqListener,
                 themeClicks, panelGetPending, notThemeVars>>

\* update_settings rejects: the catch block logs
UpdateRejects(u) ==
  /\ u \in updatePending
  /\ updatePending' = updatePending \ {u}
  /\ op' = "update.catch"
  /\ out' = <<>>
  /\ UNCHANGED <<panelSettings, panelGetPending, themeVars, notThemeVars>>

\* the OS colour scheme changes: the media query fires its change event,
\* and App's listener, if registered, runs applyTheme("system")
OsThemeChanges ==
  /\ osDark' = ~osDark
  /\ datasetTheme' = IF mqListener THEN applyTheme("system", osDark') ELSE datasetTheme
  /\ op' = "osThemeChange"
  /\ out' = <<>>
  /\ UNCHANGED <<appSettings, appGetPending, backendTheme, mqListener, themeClicks,
                 lastSelected, panelVars, notThemeVars>>

----------------------------------------------------------------------------
(* The program after construction: TrayPopup mounted on the main view, no   *)
(* profile selected, the hooks' first effects run with profileId = null,    *)
(* and get_profiles of useProfiles in flight.                               *)

InitApp ==
  /\ view = "main"
  /\ profiles = <<>>
  /\ backendProfiles = StoredProfiles
  /\ subPending = {}
  /\ addedPending = 0
  /\ nextId = 1
  /\ op = "mount"
  /\ out = <<[cmd |-> "get_profiles"], GetSettings, SetSize(0, 100)>>
  /\ calls = <<>>
  /\ uncaught = {}
  /\ FormInitial
  /\ activeProfileId = NoProfile
  /\ stats = Empty
  /\ loading = FALSE
  /\ sessions = Empty
  /\ data = Empty
  /\ pending = {}
  /\ seq = 0
  /\ intervals = AutoRefreshEffect("main", NoProfile)
  /\ profilesPending = 1
  /\ removes = {}
  /\ removeCount = 0
  /\ sessionCount = 0
  /\ scale = 100
  /\ dialogOpen = FALSE
  /\ dragging = FALSE
  /\ dialogPending = FALSE
  /\ pressed = "none"
  /\ presses = 0
  /\ posPending = 0
  /\ mouseUpListeners = 0
  /\ dragTimers = 0
  /\ blurTimeout = "null"
  /\ leakedHides = 0
  /\ hidden = FALSE
  /\ InitCore

Init ==
  /\ InitApp
  /\ status = NullStatus
  /\ rendered = Nothing
  /\ ThemeAtStart("system", FALSE)

----------------------------------------------------------------------------
(* AddProfileForm, with the navigation that mounts it *)

NextForm ==
  \/ OpenSettings
  \/ OpenAddProfile
  \/ FormBack
  \/ \E type \in providers : handleProviderChange(type)
  \/ SelectAccount
  \/ SelectApi
  \/ \E v \in NameTexts : SetName(v)
  \/ \E v \in DirTexts : SetConfigDir(v)
  \/ \E v \in KeyTexts : SetApiKey(v)
  \/ handleValidate
  \/ \E valid \in BOOLEAN : ValidateReturns(valid)
  \/ \E e \in Errors : ValidateRejects(e)
  \/ handleSubmit
  \/ \E r \in subPending : SubmitResolves(r)
  \/ \E r \in subPending, e \in Errors : SubmitRejects(r, e)
  \/ \E ok \in BOOLEAN : ProfileAddedContinues(ok)

SpecForm == Init /\ [][NextForm]_vars

----------------------------------------------------------------------------
(* The data hooks, with the TrayPopup triggers that refresh them *)

NextHooks ==
  \/ \E ok \in BOOLEAN : ProfilesLoaded(ok)
  \/ TimePasses
  \/ \E t \in intervals : TimerTick(t)
  \/ ManualRefresh
  \/ \E p \in Range(profiles) : SelectProfile(p)
  \/ \E r \in pending : Resolves(r)
  \/ \E r \in pending : Rejects(r)
  \/ OpenSettings
  \/ SettingsBack

SpecHooks == Init /\ [][NextHooks]_vars

----------------------------------------------------------------------------
(* The window: dragging, the directory picker, and hide-on-blur *)

NextWindow ==
  \/ OpenAddProfile
  \/ FormBack
  \/ SettingsBack
  \/ \E buttons \in {1, 2}, onButton \in BOOLEAN : startManualDrag(buttons, onButton)
  \/ PositionResolves
  \/ PositionRejects
  \/ MouseMove
  \/ MouseUp
  \/ DragTimerFires
  \/ Blur
  \/ Focus
  \/ \E tracked \in BOOLEAN : HideTimerFires(tracked)
  \/ PickDirectory
  \/ \E selected \in {<<>>, <<"d">>} : DialogResolves(selected)
  \/ DialogRejects

SpecWindow == Init /\ [][NextWindow]_vars

----------------------------------------------------------------------------
(* RateLimits as a function of its prop *)

InitRate ==
  /\ InitApp
  /\ status \in StatusValues
  /\ rendered = Nothing
  /\ ThemeAtStart("system", FALSE)

SpecRate == InitRate /\ [][RenderRateLimits]_vars

----------------------------------------------------------------------------
(* The data hooks with a backend that answers every invocation but the     *)
(* first get_usage_stats, which may hang for ever.  The promises of the    *)
(* invocations are independent, and the event loop runs the continuation   *)
(* of each one that settles.                                               *)

\* every invocation the hooks can issue
AllRequests ==
  UNION {Range(RefreshInvocations(p, n)) :
           p \in Range(StoredProfiles), n \in 1..MaxRefreshes}

\* the invocation that may never complete
StuckCalls == {r \in AllRequests : r.cmd = "get_usage_stats" /\ r.seq = 1}

SpecHooksFair ==
  /\ Init
  /\ [][NextHooks]_vars
  /\ WF_vars(\E r \in pending \ StuckCalls : Resolves(r))

----------------------------------------------------------------------------
(* The usage engine on its own *)

NextCore ==
  \/ \E rec \in RecordValues : AppendRecord(rec)
  \/ Tick
  \/ \E d \in Days : Touch(d, LateRecord)
  \/ Refresh

SpecCore == Init /\ [][NextCore]_vars

----------------------------------------------------------------------------
(* The theme, with the navigation that mounts SettingsPanel *)

NextTheme ==
  \/ OpenSettings
  \/ SettingsBack
  \/ \E ok \in BOOLEAN : AppSettingsLoaded(ok)
  \/ \E ok \in BOOLEAN : PanelSettingsLoaded(ok)
  \/ \E t \in Themes : SelectTheme(t)
  \/ \E u \in updatePending : UpdateResolves(u)
  \/ \E u \in updatePending : UpdateRejects(u)
  \/ OsThemeChanges

\* any stored theme and any OS preference at start
InitTheme ==
  /\ InitApp
  /\ status = NullStatus
  /\ rendered = Nothing
  /\ \E stored \in Themes, prefersDark \in BOOLEAN : ThemeAtStart(stored, prefersDark)

SpecTheme == InitTheme /\ [][NextTheme]_vars

----------------------------------------------------------------------------
(* handleRemoveProfile of TrayPopup, called by the remove buttons of       *)
(* SettingsPanel.  The callback closes over activeProfileId and profiles   *)
(* of the render that created it.                                          *)

\* list.filter(p => p.id !== id)
Remaining(list, id) == SelectSeq(list, LAMBDA p : p # id)

\* remaining.length > 0 ? remaining[0].id : null
FirstOf(list) == IF Len(list) > 0 THEN list[1] ELSE NoProfile

\* the remove button of profile id: handleRemoveProfile up to its first await
RemoveProfile(id) ==
  /\ view = "settings"
  /\ id \in Range(profiles)
  /\ removeCount < MaxRemoves
  /\ removeCount' = removeCount + 1
  /\ removes' = removes \cup {[n |-> removeCount + 1, id |-> id,
                               activeProfileId |-> activeProfileId,
                               profiles |-> profiles, stage |-> "remove_profile"]}
  /\ op' = "removeProfile"
  /\ Issues(<<[cmd |-> "remove_profile", id |-> id]>>)
  /\ UNCHANGED <<appVars, formVars, hookVars, winVars, rateVars, coreVars, themeVars,
                 panelVars, resizeVars, uncaught>>

\* remove_profile resolves: the backend has dropped the profile, and the
\* handler goes on to await refreshProfiles()
RemoveResolves(r) ==
  /\ r.stage = "remove_profile"
  /\ backendProfiles' = Remaining(backendProfiles, r.id)
  /\ removes' = (removes \ {r}) \cup {[r EXCEPT !.stage = "get_profiles"]}
  /\ op' = "removeProfile.removed"
  /\ Issues(<<[cmd |-> "get_profiles"]>>)
  /\ UNCHANGED <<view, profiles, subPending, addedPending, nextId, removeCount>>
  /\ UNCHANGED <<formVars, hookVars, winVars, rateVars, coreVars, themeVars, panelVars,
                 resizeVars, uncaught>>

\* remove_profile rejects: the catch block logs
RemoveRejects(r) ==
  /\ r.stage = "remove_profile"
  /\ removes' = removes \ {r}
  /\ op' = "removeProfile.catch"
  /\ Issues(<<>>)
  /\ UNCHANGED <<appVars, formVars, hookVars, winVars, rateVars, coreVars, themeVars,
                 panelVars, resizeVars, uncaught, removeCount>>

\* refreshProfiles() of the handler returns the new list (ok) or undefined:
\* setProfiles, the setActiveProfileId of the handler, and the auto-select
\* effect of the render that follows
RemoveRefreshed(r, ok) ==
  /\ r.stage = "get_profiles"
  /\ removes' = removes \ {r}
  /\ profiles' = IF ok THEN backendProfiles ELSE profiles
  /\ LET updated == IF ok THEN backendProfiles ELSE r.profiles
         selected == IF r.activeProfileId = r.id
                       THEN FirstOf(Remaining(updated, r.id))
                       ELSE activeProfileId
         final == IF Len(profiles') > 0 /\ selected = NoProfile
                    THEN profiles'[1] ELSE selected
     IN  IF selected # activeProfileId \/ final # selected
           THEN ProfileChanged(final, view)
           ELSE /\ Issues(<<>>)
                /\ UNCHANGED <<activeProfileId, stats, loading, sessions, data, pending,
                               seq, intervals>>
  /\ op' = "removeProfile.then"
  /\ UNCHANGED <<view, backendProfiles, subPending, addedPending, nextId, removeCount,
                 profilesPending>>
  /\ UNCHANGED <<formVars, winVars, rateVars, coreVars, themeVars, panelVars, resizeVars,
                 uncaught>>

NextProfiles ==
  \/ \E ok \in BOOLEAN : ProfilesLoaded(ok)
  \/ OpenSettings
  \/ SettingsBack
  \/ \E p \in Range(profiles) : SelectProfile(p)
  \/ \E id \in Range(profiles) : RemoveProfile(id)
  \/ \E r \in removes : RemoveResolves(r)
  \/ \E r \in removes : RemoveRejects(r)
  \/ \E r \in removes, ok \in BOOLEAN : RemoveRefreshed(r, ok)

SpecProfiles == Init /\ [][NextProfiles]_vars

----------------------------------------------------------------------------
(* The dynamic height effect of TrayPopup *)

\* the devicePixelRatio values of common displays, in hundredths
Scales == {100, 125, 150, 200}

\* get_active_sessions has resolved with a list of n sessions: setSessions,
\* the render, and the dynamic height effect
SessionsPublished(n) ==
  /\ activeProfileId # NoProfile
  /\ sessionCount' = n
  /\ op' = "sessionsPublished"
  /\ Issues(ResizeEffect(n, view))
  /\ UNCHANGED <<scale, appVars, formVars, hookVars, winVars, rateVars, coreVars,
                 themeVars, panelVars, removeVars, uncaught>>

\* the window is on a display of another pixel ratio now; no effect depends
\* on it
ScaleChanges(s) ==
  /\ s # scale
  /\ scale' = s
  /\ op' = "scaleChange"
  /\ Issues(<<>>)
  /\ UNCHANGED <<sessionCount, appVars, formVars, hookVars, winVars, rateVars, coreVars,
                 themeVars, panelVars, removeVars, uncaught>>

NextResize ==
  \/ \E ok \in BOOLEAN : ProfilesLoaded(ok)
  \/ OpenSettings
  \/ SettingsBack
  \/ OpenAddProfile
  \/ FormBack
  \/ \E n \in 0..MaxSessions : SessionsPublished(n)
  \/ \E s \in Scales : ScaleChanges(s)

SpecResize == Init /\ [][NextResize]_vars

----------------------------------------------------------------------------
(* Properties *)

\* s is empty after trimming
Blank(s) == \A i \in 1..Len(s) : s[i] = " "

\* a step published new into a hook whose state was old
Published(old, new) == new # old /\ new # Empty

\* C1.  A superseded refresh is never published: whenever a response is
\* written to stats, sessions or data, it answers the newest refresh issued
\* and was fetched for the profile that is active.
C1_SupersededNeverPublished ==
  [][\A h \in {<<stats, stats'>>, <<sessions, sessions'>>, <<data, data'>>} :
       Published(h[1], h[2]) =>
         /\ h[2].seq = seq
         /\ h[2].profileId = activeProfileId]_vars

\* the steps of one run of the interval callback
TickIssuesOneOfEach ==
  /\ Len(calls') = 4
  /\ {calls'[i].fn : i \in 1..4} =
       {"refreshStats", "refreshSessions", "refreshDaily", "refreshRateLimits"}
  /\ \A i \in 1..4 : calls'[i].profileId = activeProfileId
  /\ activeProfileId # NoProfile =>
       /\ Len(out') = 3
       /\ {out'[i].cmd : i \in 1..3} =
            {"get_usage_stats", "get_active_sessions", "get_daily_usage"}
       /\ \A i \in 1..3 : out'[i].profileId = activeProfileId

\* C2.  Auto-refresh runs every 5 seconds and only on the main view: a timer
\* tick happens only on the main view, 5000 ms after the interval was set or
\* last fired, and calls each of the four refresh functions once; off the main
\* view there is no interval, and on it there is one.
C2_AutoRefreshOnMainOnly ==
  [][/\ (view' = "main") <=> (intervals' # {})
     /\ \A t \in intervals' : t.elapsed <= 5000
     /\ op' = "timerTick" =>
          /\ view = "main"
          /\ \E t \in intervals : t.elapsed = 5000
          /\ TickIssuesOneOfEach
     /\ view' # "main" => calls' = <<>>]_vars

C2_Witness ==
  /\ op = "timerTick"
  /\ view = "main"
  /\ activeProfileId # NoProfile
  /\ Len(calls) = 4
  /\ Len(out) = 3

\* C3.  A credential check that fails with a network or server error is not
\* reported as invalid: when validate_api_key rejects, validated is not false.
C3_RejectionIsNotInvalid ==
  op = "handleValidate.catch" => validated # "false"

ValidateEnds == {"handleValidate.then(true)", "handleValidate.then(false)",
                 "handleValidate.catch"}

\* C4.  A rejected credential is a value, not a crash: when validate_api_key
\* returns false, validated is false, the error is the invalid-key message and
\* validating is false; and however the invocation ends, no exception leaves
\* handleValidate and validating is false.
C4_RejectedCredentialIsAValue ==
  /\ op = "handleValidate.then(false)" =>
       /\ validated = "false"
       /\ error = "Invalid API key or insufficient permissions"
       /\ validating = FALSE
  /\ op \in ValidateEnds => validating = FALSE /\ valPending = {}
  /\ op = "handleValidate" /\ valPending = {} => validating = FALSE
  /\ "handleValidate" \notin uncaught

C4_Witness ==
  /\ op = "handleValidate.then(false)"
  /\ validated = "false"
  /\ validating = FALSE

\* C5.  Credential validation never mutates stored configuration: a step of
\* handleValidate issues validate_api_key at most once, and only when it starts
\* with a key that is not blank; it issues nothing else, and it changes nothing
\* but validating, validated and error.
C5_ValidateLeavesConfigAlone ==
  [][op' \in ValidateEnds \cup {"handleValidate"} =>
       /\ UNCHANGED <<providerType, sourceType, name, configDir, apiKey, submitting>>
       /\ UNCHANGED <<view, profiles, backendProfiles, subPending, addedPending, nextId>>
       /\ \A i \in 1..Len(out') : out'[i].cmd = "validate_api_key"
       /\ Len(out') <= 1
       /\ op' \in ValidateEnds => out' = <<>>
       /\ Blank(apiKey) => out' = <<>>]_vars

C5_Witness ==
  /\ op = "handleValidate"
  /\ Len(out) = 1
  /\ out[1].cmd = "validate_api_key"
  /\ validating = TRUE

\* the windows of the status that are not null
HasWindow(st) == ~st.fiveHour.isNull \/ ~st.sevenDay.isNull \/ ~st.sevenDayOpus.isNull

\* C6.  No rate-limit UI is rendered when quota telemetry is unavailable:
\* RateLimits returns null when status is null or status.available is false,
\* whatever the windows hold, and when all three windows are null.
C6_NothingWhenUnavailable ==
  (op = "RateLimits" /\ (status.isNull \/ ~status.available \/ ~HasWindow(status)))
    => rendered.isNull

C6_Witness ==
  /\ op = "RateLimits"
  /\ ~status.isNull
  /\ ~status.available
  /\ HasWindow(status)
  /\ rendered.isNull

\* the windows RateLimits was given, nulls left out
GivenWindows ==
  SelectSeq(<<status.fiveHour, status.sevenDay, status.sevenDayOpus>>, NotNull)

\* C7.  Utilization is clamped for display only: the bar width is
\* min(u, 100), while the percentage shown, the colour and the warning icon
\* come from u itself, and the windows passed in are left as they were.
C7_ClampedForDisplayOnly ==
  (op = "RateLimits" /\ ~rendered.isNull) =>
    /\ Len(rendered.bars) = Len(GivenWindows)
    /\ \A i \in 1..Len(rendered.bars) :
         LET bar == rendered.bars[i]
             u == GivenWindows[i].utilization
         IN  /\ bar.window = GivenWindows[i]
             /\ bar.width = (IF u > 400 THEN 400 ELSE u)
             /\ 2 * bar.text - 5 * u \in {0, 1}
             /\ bar.isHigh <=> (u >= 320)
             /\ bar.color = (IF u >= 320 THEN "#ef4444"
                             ELSE IF u >= 240 THEN "#f59e0b"
                             ELSE "var(--provider-claude)")

C7_Witness ==
  /\ op = "RateLimits"
  /\ ~rendered.isNull
  /\ \E i \in 1..Len(rendered.bars) :
       /\ rendered.bars[i].window.utilization = 1000
       /\ rendered.bars[i].width = 400
       /\ rendered.bars[i].text = 2500

\* C8.  The window is never hidden because of a blur that happens during a
\* native dialog or a drag: a blur while the directory picker is showing, or
\* between an accepted mousedown and its mouseup, schedules no win.hide().
C8_NoHideDuringDialogOrDrag ==
  (op = "blur" /\ (dialogPending \/ pressed = "accepted")) => out = <<>>

\* C9.  The remote z.ai API variant is disabled: the source is "api" only for
\* a provider that supports it, which is "claude" alone, and no add_profile is
\* issued for the API source of another provider.
C9_ApiOnlyForClaude ==
  /\ sourceType = "api" => providerType = "claude"
  /\ \A i \in 1..Len(out) :
       (out[i].cmd = "add_profile" /\ out[i].sourceType = "api") =>
         out[i].providerType = "claude"
  /\ \A r \in subPending : r.call.sourceType = "api" => r.call.providerType = "claude"

C9_Witness ==
  /\ op = "handleSubmit"
  /\ Len(out) = 1
  /\ out[1].cmd = "add_profile"
  /\ out[1].sourceType = "api"
  /\ out[1].providerType = "claude"

\* the field the selected source requires is blank
RequiredBlank == IF sourceType = "api" THEN Blank(apiKey) ELSE Blank(configDir)

\* C10.  A profile missing its required field is rejected, not submitted:
\* handleSubmit issues add_profile only if the required field is not blank;
\* otherwise it sets the error of that field, issues nothing, does not call
\* onAdded and leaves submitting false.
C10_MissingFieldIsRejected ==
  [][op' = "handleSubmit" =>
       IF RequiredBlank
         THEN /\ out' = <<>>
              /\ error' = (IF sourceType = "api" THEN "API key is required"
                           ELSE "Config directory is required")
              /\ submitting' = FALSE
              /\ UNCHANGED <<subPending, addedPending, backendProfiles, profiles, view>>
         ELSE \A i \in 1..Len(out') : out'[i].cmd = "add_profile"]_vars

C10_Witness ==
  /\ op = "handleSubmit"
  /\ sourceType = "account"
  /\ configDir = <<" ">>
  /\ error = "Config directory is required"
  /\ out = <<>>
  /\ submitting = FALSE

\* a step that is a refresh trigger: a timer tick, a click on the refresh
\* button, or a change of the active profile
RefreshTrigger ==
  \/ op' \in {"timerTick", "manualRefresh"}
  \/ activeProfileId' # activeProfileId

DataKinds == {"get_usage_stats", "get_active_sessions", "get_daily_usage"}

\* the step issued no invocation for usage data, and none came into flight
NoDataInvocation ==
  /\ \A i \in 1..Len(out') : out'[i].cmd \notin DataKinds
  /\ pending' \subseteq pending

\* the step issued exactly one invocation per data kind, each for profile p
OneInvocationPerKind(p) ==
  /\ Len(out') = 3
  /\ {out'[i].cmd : i \in 1..3} = DataKinds
  /\ \A i \in 1..3 : out'[i].profileId = p
  /\ pending' = pending \cup Range(out')

\* C11 as stated: every refresh trigger issues exactly one backend invocation
\* per data kind, and no other step (a failed invocation in particular)
\* issues any.
C11_EveryTriggerInvokesOnce ==
  [][IF RefreshTrigger
       THEN OneInvocationPerKind(activeProfileId')
       ELSE NoDataInvocation]_vars

\* C11, amended.  There is no automatic retry: a refresh trigger issues
\* exactly one backend invocation per data kind when a profile is active
\* and none when activeProfileId is null, and no other step (a failed
\* invocation in particular) issues any.
C11_NoAutomaticRetry ==
  [][IF RefreshTrigger
       THEN IF activeProfileId' # NoProfile
              THEN OneInvocationPerKind(activeProfileId')
              ELSE NoDataInvocation /\ pending' = pending
       ELSE NoDataInvocation]_vars

\* get_usage_stats failed, and nothing asks for the stats again
C11_Witness ==
  /\ op = "refresh.catch"
  /\ activeProfileId # NoProfile
  /\ stats = Empty
  /\ out = <<>>
  /\ \A r \in pending : r.cmd # "get_usage_stats"

\* the response to r is what r's hook holds after the step
PublishedBy(r) ==
  /\ r.cmd = "get_usage_stats" => stats' = Response(r)
  /\ r.cmd = "get_active_sessions" => sessions' = Response(r)
  /\ r.cmd = "get_daily_usage" => data' = Response(r)

RECURSIVE SumOf(_, _, _)
SumOf(f, S, k) ==
  IF S = {} THEN 0
  ELSE LET x == CHOOSE y \in S : TRUE IN f[x][k] + SumOf(f, S \ {x}, k)

\* the records of a day's file that decode, in file order
ValidRecords(d) == SelectSeq(files[d], LAMBDA r : r.valid)

\* the records of a day's file that do not decode
MalformedRecords(d) == SelectSeq(files[d], LAMBDA r : ~r.valid)

\* the greatest timestamp among the events of session s
LastEventOf(events, s) ==
  CHOOSE t \in {events[i].timestamp : i \in {j \in 1..Len(events) : events[j].sessionId = s}} :
    \A i \in 1..Len(events) : events[i].sessionId = s => events[i].timestamp <= t

\* C13.  Session activity uses a strict boundary: in the sessions a refresh
\* returns, a session is active iff now - lastActive < activityWindow, where
\* lastActive is the time of its last event; one whose lastActive is exactly
\* now - activityWindow is inactive.
C13_StrictActivityBoundary ==
  op = "refresh" =>
    \A s \in DOMAIN result.sessions :
      LET x == result.sessions[s]
      IN  /\ x.lastActive = LastEventOf(result.events, s)
          /\ x.isActive <=> (result.at - x.lastActive < ActivityWindow)
          /\ x.lastActive = result.at - ActivityWindow => ~x.isActive

\* a session exactly on the boundary, and one inside the window
C13_Witness ==
  /\ op = "refresh"
  /\ \E s \in DOMAIN result.sessions :
       /\ result.sessions[s].lastActive = result.at - ActivityWindow
       /\ ~result.sessions[s].isActive
  /\ \E s \in DOMAIN result.sessions : result.sessions[s].isActive

\* the breakdown of st sums to its totals
BreakdownSumsToTotals(st) ==
  /\ SumOf(st.modelBreakdown, DOMAIN st.modelBreakdown, "inputTokens")
       = st.totalInputTokens
  /\ SumOf(st.modelBreakdown, DOMAIN st.modelBreakdown, "outputTokens")
       = st.totalOutputTokens

\* C14.  Aggregation never loses or double-counts tokens: in the UsageStats
\* of every fold (the one a refresh returns and those the cache holds) the
\* inputTokens of the modelBreakdown entries sum to totalInputTokens, and
\* likewise for outputTokens; and the totals are the sums over the events.
C14_BreakdownSumsToTotals ==
  /\ \A d \in Days : cache[d].present => BreakdownSumsToTotals(cache[d].stats)
  /\ op = "refresh" =>
       /\ BreakdownSumsToTotals(result.usage)
       /\ result.usage.totalInputTokens
            = SumOf(result.events, 1..Len(result.events), "inputTokens")
       /\ result.usage.totalOutputTokens
            = SumOf(result.events, 1..Len(result.events), "outputTokens")

\* three events of two models, two of them of the same model
C14_Witness ==
  /\ op = "refresh"
  /\ result.usage.totalMessages = 3
  /\ Cardinality(DOMAIN result.usage.modelBreakdown) = 2
  /\ result.usage.totalInputTokens > 0

\* the stats and the fingerprints at hand in a state
StatsAtHand == {result.usage} \cup {cache[d].stats : d \in Days}

FingerprintsAtHand ==
  {Fingerprint(d) : d \in Days} \cup {cache[d].fingerprint : d \in Days}

\* the stats of a day computed afresh from its file
Recomputed(d) == Fold(ValidRecords(d))

\* C15.  Cache round-trip: put(profile, day, stats, fp) followed by
\* get(profile, day) with the fingerprint unchanged returns exactly the stats
\* that were put, and with any other fingerprint reports a miss; in the
\* engine, an entry whose file is unchanged since the put returns the stats
\* computed from that file, and once the file's fingerprint has changed the
\* get reports a miss.
C15_CacheRoundTrip ==
  /\ \A d \in Days, st \in StatsAtHand, fp \in FingerprintsAtHand :
       /\ Get(Put(cache, d, st, fp), d, fp) = [hit |-> TRUE, stats |-> st]
       /\ \A changed \in FingerprintsAtHand \ {fp} :
            Get(Put(cache, d, st, fp), d, changed) = Miss
  /\ \A d \in Days :
       cache[d].present =>
         IF cache[d].fingerprint = Fingerprint(d)
           THEN Get(cache, d, Fingerprint(d)) = [hit |-> TRUE, stats |-> Recomputed(d)]
           ELSE Get(cache, d, Fingerprint(d)) = Miss

\* an entry was put for a past day with events, and the day's file has
\* changed since
C15_Witness ==
  /\ op = "touch"
  /\ \E d \in Days :
       /\ cache[d].present
       /\ cache[d].stats.totalMessages > 0
       /\ cache[d].fingerprint # Fingerprint(d)

\* C16.  The current day is never served from the cache: every refresh
\* recomputes today's stats from today's file and puts them, whatever
\* fingerprint is stored for today; only a completed past day is a cache hit.
C16_TodayNeverCached ==
  op = "refresh" =>
    LET today == DayOf(result.at)
    IN  /\ today \notin result.hits
        /\ today \in result.puts
        /\ \A d \in result.hits : d < today
        /\ result.usage = Recomputed(today)
        /\ cache[today].stats = Recomputed(today)

\* today's stored fingerprint matched and today was recomputed all the same,
\* while a past day was served from the cache
C16_Witness ==
  /\ op = "refresh"
  /\ DayOf(result.at) \in result.matched
  /\ DayOf(result.at) \notin result.hits
  /\ result.hits # {}

\* C17.  A malformed record does not abort a file's parse: the events of a
\* refresh are the records of today's file that decode, in file order, every
\* valid record after a malformed one included, and the parse errors are the
\* malformed records; the records [valid, malformed, valid] yield 2 events.
C17_MalformedRecordSkipped ==
  op = "refresh" =>
    LET today == DayOf(result.at)
    IN  /\ result.events = ValidRecords(today)
        /\ result.parseErrors = Len(MalformedRecords(today))
        /\ result.usage.totalMessages = Len(ValidRecords(today))

\* today's file holds [valid, malformed, valid] and the refresh gave 2 events
C17_Witness ==
  /\ op = "refresh"
  /\ LET recs == files[DayOf(result.at)]
     IN  /\ Len(recs) = 3
         /\ recs[1].valid /\ ~recs[2].valid /\ recs[3].valid
  /\ Len(result.events) = 2
  /\ result.parseErrors = 1

\* C18.  OS theme changes are followed only in system mode: once the user
\* has selected a theme in the settings panel and the update has succeeded,
\* an OS prefers-color-scheme change does not alter the applied theme when
\* the selected theme is "light" or "dark", and makes it dark iff the OS
\* prefers dark when the selected theme is "system".
C18_OsFollowedOnlyInSystemMode ==
  [][(op' = "osThemeChange" /\ updatePending = {} /\ lastSelected # "none") =>
       IF lastSelected = "system"
         THEN datasetTheme' = applyTheme("system", osDark')
         ELSE datasetTheme' = datasetTheme]_vars


\* C19.  Hide-on-blur is debounced and cancelled by focus: win.hide() is
\* called only by the 150 ms timer of a blur that no focus event has
\* followed; when it is called, the handle is not the null that the focus
\* listener leaves behind, whichever of several consecutive blurs set the timer.
C19_FocusCancelsEveryHide ==
  op = "hideTimer" =>
    /\ out = <<[cmd |-> "win.hide"]>>
    /\ blurTimeout # "null"


\* C20.  Removing a profile keeps the selection valid.  When
\* handleRemoveProfile(id) has succeeded: if id was the active profile,
\* activeProfileId is the first profile that remains, or null when none
\* remains; if it was not, activeProfileId is unchanged; and the selection
\* is null or a profile that still exists.  When remove_profile fails,
\* neither the profile list nor activeProfileId changes.
C20_RemovalKeepsSelectionValid ==
  [][/\ op' = "removeProfile.then" =>
          /\ \A r \in removes \ removes' :
               IF r.activeProfileId = r.id
                 THEN activeProfileId' = FirstOf(backendProfiles')
                 ELSE activeProfileId' = activeProfileId
          /\ activeProfileId' \in Range(backendProfiles') \cup {NoProfile}
     /\ op' = "removeProfile.catch" =>
          /\ profiles' = profiles
          /\ activeProfileId' = activeProfileId]_vars


\* C21.  The first profile is auto-selected: whenever the profile list is
\* not empty and activeProfileId is null, activeProfileId becomes profiles[0];
\* and a selection that is not null changes only by a click on a profile tab
\* or by the removal of the selected profile, never by auto-selection.
C21_FirstProfileAutoSelected ==
  /\ [](Len(profiles) > 0 => activeProfileId # NoProfile)
  /\ [][(activeProfileId = NoProfile /\ Len(profiles') > 0) =>
          activeProfileId' = profiles'[1]]_vars
  /\ [][(activeProfileId # NoProfile /\ activeProfileId' # activeProfileId) =>
          \/ op' = "selectProfile"
          \/ /\ op' = "removeProfile.then"
             /\ \E r \in removes \ removes' : r.activeProfileId = r.id]_vars

\* the list has arrived with nothing selected, and its first profile is
\* selected now
C21_Witness ==
  /\ op = "refreshProfiles.then"
  /\ Len(profiles) > 1
  /\ activeProfileId = profiles[1]
  /\ out = RefreshInvocations(profiles[1], seq)


\* the height the popup is to have with n sessions, in logical pixels
HeightFor(n) == CASE n \in {0, 1} -> 490 [] n = 2 -> 530 [] OTHER -> 600

\* physical is logical times the pixel ratio (in hundredths), rounded to a
\* nearest integer
IsScaled(physical, logical) ==
  /\ 2 * (100 * physical - logical * scale) <= 100
  /\ 2 * (logical * scale - 100 * physical) <= 100

\* C22.  Window height is a function of the session count and only height
\* changes: a size is requested on the main view only, it is 380 wide and
\* 490 (0 or 1 sessions), 530 (2 sessions) or 600 (3 or more) high, each
\* times devicePixelRatio and rounded, and the step that requests it sets no
\* window position.
C22_HeightFollowsSessionCount ==
  \A i \in 1..Len(out) :
    /\ out[i].cmd = "setSize" =>
         /\ view = "main"
         /\ IsScaled(out[i].width, PopupWidth)
         /\ IsScaled(out[i].height, HeightFor(sessionCount))
         /\ \A j \in 1..Len(out) : out[j].cmd # "setPosition"
    /\ view # "main" => out[i].cmd # "setSize"

\* two sessions arrive on a display of ratio 1.25: 475 by 663 (662.5 rounded)
C22_Witness ==
  /\ op = "sessionsPublished"
  /\ sessionCount = 2
  /\ scale = 125
  /\ out = <<[cmd |-> "setSize", width |-> 475, height |-> 663]>>


\* C23.  Timer-driven refreshes always target the current profile and never
\* overlap timers: at most one auto-refresh interval is active, its callback
\* is bound to the active profile, and every call and invocation of a tick is
\* for the active profile.
C23_OneTimerForCurrentProfile ==
  /\ Cardinality(intervals) <= 1
  /\ \A t \in intervals : t.profileId = activeProfileId
  /\ op = "timerTick" =>
       /\ \A i \in 1..Len(calls) : calls[i].profileId = activeProfileId
       /\ \A i \in 1..Len(out) : out[i].profileId = activeProfileId

\* the interval set at mount, when no profile was selected, has been replaced:
\* the tick asks for the data of the profile selected since
C23_Witness ==
  /\ op = "timerTick"
  /\ activeProfileId # NoProfile
  /\ Len(calls) = 4
  /\ Len(out) = 3
  /\ intervals = {[profileId |-> activeProfileId, elapsed |-> 0]}


\* C24.  Every drag ends: once the mouse button is released after an accepted
\* startManualDrag, the dragging flag becomes false 200 ms after the mouseup,
\* also when the mouseup came before outerPosition() resolved and when
\* outerPosition() rejected.  So when the button is up, no outerPosition() is
\* in flight and no 200 ms timer is set, the flag is false.
C24_EveryDragEnds ==
  (pressed = "none" /\ posPending = 0 /\ dragTimers = 0) => ~isDragging


\* C25.  A positive validation result always refers to the key currently in
\* the form: when validate_api_key returns true and validated becomes true,
\* the trimmed apiKey and the providerType of the form are those the
\* invocation was given, also when the key was edited or the provider
\* switched while it was in flight.
C25_ValidatedIsTheCurrentKey ==
  [][(op' = "handleValidate.then(true)" /\ validated' = "true") =>
       \A c \in valPending :
         /\ c.apiKey = Trim(apiKey')
         /\ c.providerType = providerType']_vars


\* C26.  The loading flag covers the current profile's first fetch: with a
\* profile selected, loading stays true until a get_usage_stats invocation
\* issued for that profile has completed, with a result or an error; the
\* completion of an invocation issued for the previous profile does not set
\* it to false.
C26_LoadingCoversCurrentFetch ==
  [][(loading /\ ~loading' /\ activeProfileId' # NoProfile) =>
       \E r \in pending \ pending' :
         /\ r.cmd = "get_usage_stats"
         /\ r.profileId = activeProfileId']_vars

====
